---- MODULE Spec2Model ----
(***************************************************************************)
(* A model of AdsDataSqlSync: src/adsdata/row_view.py (class SqlSync: the  *)
(* per-attribute column tables of a Postgres schema, the joined row view,  *)
(* the delta tables) and src/run.py (the commands that drive it).          *)
(*                                                                         *)
(* A relation is a record [cols, rows]: the set of its column names and    *)
(* the set of its rows, each row a function from cols to values.  Every    *)
(* column is nullable: SQL NULL is the empty tuple and a value v is held   *)
(* as the one-element tuple <<v>>.                                         *)
(***************************************************************************)
EXTENDS Integers, Sequences, FiniteSets, Bags, TLC

VARIABLES db, last, run, seen, send

vars == <<db, last, run, seen, send>>

(***************************************************************************)
(* Bounds of the model.                                                    *)
(***************************************************************************)
\* the largest number of rows the non-canonical column files of one data
\* directory hold together
MaxRows == 2

\* the largest number of rows of a row view that is sent to the master
\* pipeline
MaxRecords == 4

\* the largest batch_size nonbib_to_master_pipeline is called with
MaxBatch == 3

(***************************************************************************)
(* SQL values.                                                             *)
(***************************************************************************)
NULL == <<>>

Val(v) == <<v>>

\* coalesce(x, d): the first argument that is not NULL
Coalesce(x, d) == IF x # NULL THEN x ELSE d

\* x != y in a where clause: NULL (not true) when either side is NULL
SqlNe(x, y) == x # NULL /\ y # NULL /\ x[1] # y[1]

\* x = y in a where / on clause
SqlEq(x, y) == x # NULL /\ y # NULL /\ x[1] = y[1]

\* the length of the ARRAY[0,...,0] literal that defaults downloads and reads
VecLen == 21

ZeroVec == [i \in 1..VecLen |-> 0]

EmptyArray == <<>>

(***************************************************************************)
(* The column tables.                                                      *)
(***************************************************************************)
all_types ==
    <<"canonical", "author", "refereed", "simbad", "grants", "citation",
      "relevance", "reader", "download", "reference", "reads", "ned">>

TypeSet == {all_types[i] : i \in 1..Len(all_types)}

OptionalTypes == TypeSet \ {"canonical"}

\* the value columns of each column table (every table also has bibcode,
\* its primary key)
ValueCols(t) ==
    CASE t = "canonical" -> {"id"}
      [] t = "author"    -> {"authors"}
      [] t = "refereed"  -> {"refereed"}
      [] t = "simbad"    -> {"simbad_objects"}
      [] t = "ned"       -> {"ned_objects"}
      [] t = "grants"    -> {"grants"}
      [] t = "citation"  -> {"citations"}
      [] t = "relevance" -> {"boost", "citation_count", "read_count", "norm_cites"}
      [] t = "reader"    -> {"readers"}
      [] t = "reads"     -> {"reads"}
      [] t = "download"  -> {"downloads"}
      [] t = "reference" -> {"reference"}

get_table(t) == {"bibcode"} \cup ValueCols(t)

\* the columns of the row view, rowviewm
get_row_view_table ==
    {"bibcode", "id", "authors", "refereed", "simbad_objects", "ned_objects",
     "grants", "citations", "boost", "citation_count", "read_count",
     "norm_cites", "readers", "downloads", "reads", "reference"}

EmptyTable(t) == [cols |-> get_table(t), rows |-> {}]

BibcodesOf(rel) == {r["bibcode"][1] : r \in rel.rows}

\* the row of rel whose bibcode is k (bibcode is a primary key)
RowOf(rel, k) == CHOOSE r \in rel.rows : r["bibcode"] = Val(k)

(***************************************************************************)
(* The SQL of row_view.py.                                                 *)
(***************************************************************************)
\* a natural inner join: a row of L without a partner is dropped
NaturalInnerJoin(L, R) ==
    LET common == L.cols \cap R.cols
        all == L.cols \cup R.cols
        Match(l, r) == \A c \in common : SqlEq(l[c], r[c])
        Merge(l, r) == [c \in all |-> IF c \in L.cols THEN l[c] ELSE r[c]]
    IN  [cols |-> all,
         rows |-> {Merge(p[1], p[2]) :
                      p \in {q \in L.rows \X R.rows : Match(q[1], q[2])}}]

\* L natural left join R: the join is on every column name the two sides
\* share; a row of L without a partner is kept, NULL in R's columns
NaturalLeftJoin(L, R) ==
    LET common == L.cols \cap R.cols
        all == L.cols \cup R.cols
        Match(l, r) == \A c \in common : SqlEq(l[c], r[c])
        Merge(l, r) == [c \in all |-> IF c \in L.cols THEN l[c] ELSE r[c]]
        Pad(l) == [c \in all |-> IF c \in L.cols THEN l[c] ELSE NULL]
    IN  [cols |-> all,
         rows |-> {Merge(p[1], p[2]) :
                      p \in {q \in L.rows \X R.rows : Match(q[1], q[2])}}
                  \cup {Pad(l) : l \in {x \in L.rows :
                                          \A r \in R.rows : ~Match(x, r)}}]

\* the tables of create_view_sql's from clause after Canonical, in order
JoinOrder ==
    <<"author", "refereed", "simbad", "grants", "citation", "ned",
      "relevance", "reader", "download", "reads", "reference">>

RECURSIVE JoinFrom(_, _)
JoinFrom(tables, n) ==
    IF n = 0 THEN tables["canonical"]
    ELSE NaturalLeftJoin(JoinFrom(tables, n - 1), tables[JoinOrder[n]])

\* coalesce defaults whose zero vectors are one bucket short
CoalesceDefaultShort(c) ==
    CASE c \in {"authors", "simbad_objects", "ned_objects", "grants",
                "citations", "readers", "reference"} -> Val(EmptyArray)
      [] c = "refereed" -> Val(FALSE)
      [] c \in {"boost", "citation_count", "read_count", "norm_cites"} -> Val(0)
      [] c \in {"downloads", "reads"} -> Val([i \in 1..(VecLen - 1) |-> 0])

\* the second argument of each coalesce of create_view_sql
CoalesceDefault(c) ==
    CASE c \in {"authors", "simbad_objects", "ned_objects", "grants",
                "citations", "readers", "reference"} -> Val(EmptyArray)
      [] c = "refereed" -> Val(FALSE)
      [] c \in {"boost", "citation_count", "read_count", "norm_cites"} -> Val(0)
      [] c \in {"downloads", "reads"} -> Val(ZeroVec)

\* the select list of create_view_sql: bibcode and id as they are, every
\* other column coalesced
SelectRowView(r) ==
    [c \in get_row_view_table |->
        IF c \in {"bibcode", "id"} THEN r[c]
        ELSE Coalesce(r[c], CoalesceDefault(c))]

\* the relation CREATE MATERIALIZED VIEW {0}.RowViewM holds
create_view_sql(tables) ==
    [cols |-> get_row_view_table,
     rows |-> {SelectRowView(r) : r \in JoinFrom(tables, Len(JoinOrder)).rows}]

\* a comparison list that leaves boost out
ChangedColsNoBoost ==
    {"authors", "refereed", "simbad_objects", "ned_objects", "grants",
     "citations", "norm_cites", "citation_count", "read_count",
     "readers", "downloads", "reads"}

\* the columns create_changed_sql compares
ChangedCols ==
    {"authors", "refereed", "simbad_objects", "ned_objects", "grants",
     "citations", "boost", "norm_cites", "citation_count", "read_count",
     "readers", "downloads", "reads"}

\* a where clause that compares the columns and forgets to join on bibcode
ChangedWhereNoJoin(c, b) ==
    \E col \in {"authors", "refereed", "simbad_objects", "ned_objects",
                 "grants", "citations", "boost", "norm_cites", "citation_count",
                 "read_count", "readers", "downloads", "reads"} :
        SqlNe(c[col], b[col])

\* the where clause of create_changed_sql on a row c of {0}.RowViewM and a
\* row b of {1}.RowViewM
ChangedWhere(c, b) ==
    /\ SqlEq(c["bibcode"], b["bibcode"])
    /\ \E col \in ChangedCols : SqlNe(c[col], b[col])

\* the rows of create table {0}.ChangedRowsM as select ...: a bag, the
\* table has no key; one row (bibcode, id) per selected pair of rows
create_changed_sql(cand, base) ==
    LET sel == {p \in cand.rows \X base.rows : ChangedWhere(p[1], p[2])}
        Out(p) == [bibcode |-> p[1]["bibcode"], id |-> p[1]["id"]]
    IN  [x \in {Out(p) : p \in sel} |->
            Cardinality({p \in sel : Out(p) = x})]

\* {0}.canonical left join {1}.canonical on the bibcodes being equal, as the
\* pairs <<row of {0}, bibcode of the joined row of {1} or NULL>>
CanonicalLeftJoin(cand, base) ==
    {<<p[1], p[2]["bibcode"]>> :
        p \in {q \in cand.rows \X base.rows : SqlEq(q[1]["bibcode"], q[2]["bibcode"])}}
    \cup {<<c, NULL>> : c \in {x \in cand.rows :
              \A b \in base.rows : ~SqlEq(x["bibcode"], b["bibcode"])}}

\* the select without its where clause: every bibcode of {0}.canonical
NewBibcodesSelectNoFilter(cand, base) == CanonicalLeftJoin(cand, base)

\* the select of include_new_bibcodes_sql and populate_new_bibcodes_sql:
\* the bibcodes of {0}.canonical where {1}.canonical.bibcode IS NULL
NewBibcodesSelect(cand, base) ==
    {p \in CanonicalLeftJoin(cand, base) : p[2] = NULL}

\* the rows include_new_bibcodes_sql inserts into ChangedRowsM (bibcode):
\* a bag of rows whose id is NULL
include_new_bibcodes_sql(cand, base) ==
    LET sel == NewBibcodesSelect(cand, base)
        Out(p) == [bibcode |-> p[1]["bibcode"], id |-> NULL]
    IN  [x \in {Out(p) : p \in sel} |->
            Cardinality({p \in sel : Out(p) = x})]

\* the rows populate_new_bibcodes_sql inserts into newbibcodes (bibcode)
populate_new_bibcodes_sql(cand, base) ==
    LET sel == NewBibcodesSelect(cand, base)
        Out(p) == [bibcode |-> p[1]["bibcode"]]
    IN  [x \in {Out(p) : p \in sel} |->
            Cardinality({p \in sel : Out(p) = x})]

\* the bibcodes of the rows of a bag of rows
BagBibcodes(bag) == {x["bibcode"][1] : x \in BagToSet(bag)}

\* the number of rows of a bag whose bibcode is k
BibcodeCount(bag, k) ==
    LET hit == {x \in BagToSet(bag) : x["bibcode"] = Val(k)}
    IN  BagCardinality([x \in hit |-> bag[x]])

(***************************************************************************)
(* The column files load_column_files reads: a data directory gives, for   *)
(* each type, the rows its reader hands to copy_from.                      *)
(***************************************************************************)
BibcodeNames == <<"A", "B", "C", "D", "E">>

KeyNames == SubSeq(BibcodeNames, 1, 2)

\* the document keys (bibcodes) the input files draw from
Keys == {KeyNames[i] : i \in 1..Len(KeyNames)}

\* the surrogate id the canonical file gives a bibcode
KeyId(k) == CHOOSE i \in 1..Len(BibcodeNames) : BibcodeNames[i] = k

ArrayValues == {<<"x", "y">>, <<"y", "x">>}

Bucket(b) == [i \in 1..VecLen |-> IF i = b THEN 1 ELSE 0]

VectorValues == {Bucket(1), Bucket(VecLen)}

RelevanceValues ==
    {[boost |-> 1, citation_count |-> 0, read_count |-> 0, norm_cites |-> 0],
     [boost |-> 2, citation_count |-> 0, read_count |-> 0, norm_cites |-> 0],
     [boost |-> 0, citation_count |-> 1, read_count |-> 0, norm_cites |-> 0],
     [boost |-> 0, citation_count |-> 0, read_count |-> 1, norm_cites |-> 0],
     [boost |-> 0, citation_count |-> 0, read_count |-> 0, norm_cites |-> 1]}

\* the values a row of the file of type t may carry in its value columns
FileValues(t) ==
    CASE t = "relevance" -> RelevanceValues
      [] t = "refereed" -> {[c \in ValueCols(t) |-> TRUE]}
      [] t \in {"download", "reads"} ->
            {[c \in ValueCols(t) |-> v] : v \in VectorValues}
      [] OTHER -> {[c \in ValueCols(t) |-> a] : a \in ArrayValues}

OptRows ==
    UNION {{[type |-> t, key |-> k, vals |-> v] :
                k \in Keys, v \in FileValues(t)} : t \in OptionalTypes}

\* the sets of at most n rows, no two for the same type and bibcode (the
\* readers aggregate a bibcode's lines into one row)
RECURSIVE RowSets(_)
RowSets(n) ==
    IF n = 0 THEN {{}}
    ELSE LET P == RowSets(n - 1)
         IN  P \cup {S \cup {r} : <<S, r>> \in
                 {q \in P \X OptRows :
                     \A x \in q[1] : x.type # q[2].type \/ x.key # q[2].key}}

FileRow(r) ==
    [c \in get_table(r.type) |->
        IF c = "bibcode" THEN Val(r.key) ELSE Val(r.vals[c])]

CanonicalFile(ks) ==
    [cols |-> get_table("canonical"),
     rows |-> {[bibcode |-> Val(k), id |-> Val(KeyId(k))] : k \in ks}]

DataDir(ks, rs) ==
    [t \in TypeSet |->
        IF t = "canonical" THEN CanonicalFile(ks)
        ELSE [cols |-> get_table(t),
              rows |-> {FileRow(r) : r \in {x \in rs : x.type = t}}]]

DataDirs == {DataDir(ks, rs) : ks \in SUBSET Keys, rs \in RowSets(MaxRows)}

\* the data directories two generations are compared on: a canonical file
\* and, in the other files together, at most one row, of the first key
DeltaDirs ==
    {DataDir(ks, rs) :
        ks \in SUBSET Keys,
        rs \in {{}} \cup {{r} : r \in {x \in OptRows : x.key = KeyNames[1]}}}

\* the data directories the pipeline commands load: every file empty; a
\* canonical file of the first key and its author row; a canonical file of
\* every key and no other row
PipelineDirs ==
    {DataDir({}, {}),
     DataDir({KeyNames[1]},
             {[type |-> "author", key |-> KeyNames[1],
               vals |-> [c \in ValueCols("author") |-> <<"x", "y">>]]}),
     DataDir(Keys, {})}

EmptyDir == [t \in TypeSet |-> EmptyTable(t)]

(***************************************************************************)
(* The database: each schema name holds no schema (<<>>) or one schema     *)
(* (<<s>>): its twelve column tables and, once created, rowviewm,          *)
(* changedrowsm and newbibcodes (each <<>> while it does not exist);       *)
(* loaded tells that the file of every type was copied into it and         *)
(* committed.                                                              *)
(***************************************************************************)
\* the defaults of --rowViewSchemaName and --rowViewBaselineSchemaName
SchemaNames == {"nonbib", "nonbibstaging"}

NoSchema == <<>>

NoTable == <<>>

Exists(d, s) == d[s] # NoSchema

Schema(d, s) == d[s][1]

\* CreateSchema and create_all: every column table, empty
NewSchema ==
    [tables |-> [t \in TypeSet |-> EmptyTable(t)], loaded |-> FALSE,
     rowviewm |-> NoTable, changedrowsm |-> NoTable, newbibcodes |-> NoTable]

\* a schema whose column tables hold the rows of data directory dir
Loaded(dir) == [NewSchema EXCEPT !.tables = dir, !.loaded = TRUE]

\* cur.copy_from(r, table_name); conn.commit() for type t: the rows of the
\* file are added to the table; a bibcode the table already holds violates
\* its primary key and the copy raises
copy_from(d, s, t, file) ==
    IF \/ ~Exists(d, s)
       \/ BibcodesOf(Schema(d, s).tables[t]) \cap BibcodesOf(file) # {}
    THEN [db |-> d, ok |-> FALSE]
    ELSE [db |-> [d EXCEPT ![s] =
                    <<[Schema(d, s) EXCEPT
                        !.tables[t].rows = @ \cup file.rows,
                        !.loaded = (t = all_types[Len(all_types)])]>>],
          ok |-> TRUE]

Result(d, ok) == [db |-> d, ok |-> ok]

(***************************************************************************)
(* The methods of SqlSync, as the database and outcome each leaves.        *)
(***************************************************************************)
\* a create that replaces the schema the name holds
create_column_tables_replace(d, s) ==
    Result([d EXCEPT ![s] = <<NewSchema>>], ~Exists(d, s))

\* CreateSchema raises when the schema exists
create_column_tables(d, s) ==
    IF Exists(d, s) THEN Result(d, FALSE)
    ELSE Result([d EXCEPT ![s] = <<NewSchema>>], TRUE)

\* a rename that replaces whatever the new name holds
rename_schema_overwrite(d, s, new) ==
    IF ~Exists(d, s) THEN [db |-> d, ok |-> FALSE]
    ELSE [db |-> [d EXCEPT ![new] = d[s], ![s] = NoSchema], ok |-> TRUE]

\* alter schema s rename to new: raises when s does not exist or new does
rename_schema(d, s, new) ==
    IF ~Exists(d, s) \/ Exists(d, new) THEN Result(d, FALSE)
    ELSE Result([d EXCEPT ![new] = d[s], ![s] = NoSchema], TRUE)

\* drop schema if exists s cascade
drop_column_tables(d, s) == Result([d EXCEPT ![s] = NoSchema], TRUE)

\* CREATE MATERIALIZED VIEW s.RowViewM: raises when the column tables do
\* not exist or the view already does
create_joined_rows(d, s) ==
    IF ~Exists(d, s) \/ Schema(d, s).rowviewm # NoTable THEN Result(d, FALSE)
    ELSE Result([d EXCEPT ![s] =
                    <<[Schema(d, s) EXCEPT
                        !.rowviewm = <<create_view_sql(Schema(d, s).tables)>>]>>],
                TRUE)

\* create table s.ChangedRowsM as select ..., commit, then insert the new
\* bibcodes into it, commit
create_delta_rows(d, s, b) ==
    IF \/ ~Exists(d, s) \/ ~Exists(d, b)
       \/ Schema(d, s).rowviewm = NoTable \/ Schema(d, b).rowviewm = NoTable
       \/ Schema(d, s).changedrowsm # NoTable
    THEN Result(d, FALSE)
    ELSE LET changed == create_changed_sql(Schema(d, s).rowviewm[1],
                                           Schema(d, b).rowviewm[1])
             new == include_new_bibcodes_sql(Schema(d, s).tables["canonical"],
                                             Schema(d, b).tables["canonical"])
         IN  Result([d EXCEPT ![s] =
                        <<[Schema(d, s) EXCEPT
                            !.changedrowsm = <<changed (+) new>>]>>],
                    TRUE)

\* create_delta_rows where the insert of the new bibcodes raises: create
\* table s.ChangedRowsM as select ... has been committed by then
create_delta_rows_insert_raises(d, s, b) ==
    IF ~create_delta_rows(d, s, b).ok THEN Result(d, FALSE)
    ELSE Result([d EXCEPT ![s] =
                    <<[Schema(d, s) EXCEPT
                        !.changedrowsm =
                            <<create_changed_sql(Schema(d, s).rowviewm[1],
                                                 Schema(d, b).rowviewm[1])>>]>>],
                FALSE)

\* drop table if exists s.newbibcodes, create it, then populate it
build_new_bibcodes(d, s, b) ==
    IF ~Exists(d, s) THEN Result(d, FALSE)
    ELSE IF ~Exists(d, b)
    THEN Result([d EXCEPT ![s] =
                    <<[Schema(d, s) EXCEPT !.newbibcodes = <<EmptyBag>>]>>],
                FALSE)
    ELSE Result([d EXCEPT ![s] =
                    <<[Schema(d, s) EXCEPT !.newbibcodes =
                        <<populate_new_bibcodes_sql(
                              Schema(d, s).tables["canonical"],
                              Schema(d, b).tables["canonical"])>>]>>],
                TRUE)

\* the columns log_delta_reasons counts
column_names ==
    <<"authors", "refereed", "simbad_objects", "grants", "citations",
      "boost", "citation_count", "read_count", "norm_cites",
      "readers", "downloads", "reads", "reference", "ned_objects">>

\* the pairs of rows of the two row views that one count(*) of
\* log_delta_reasons counts: same bibcode, column col different
DifferentRows(cand, base, col) ==
    {p \in cand.rows \X base.rows :
        SqlEq(p[1]["bibcode"], p[2]["bibcode"]) /\ SqlNe(p[1][col], p[2][col])}

\* the counts log_delta_reasons logs, one per column of column_names
log_delta_reasons(cand, base) ==
    [n \in 1..Len(column_names) |->
        Cardinality(DifferentRows(cand, base, column_names[n]))]

(***************************************************************************)
(* The commands of run.py's main.  last is the command that ran last, or   *)
(* is running, and whether it has not raised.                              *)
(***************************************************************************)
\* run is the pipeline command in progress: its arguments, the statement
\* it is about to execute (pc, and i in the loop of load_column_files), the
\* data directory it loads, and, for runPipelinesDelta, what the two schema
\* names held when it started (old: the baseline name, new: the row view
\* schema name)
Idle ==
    [cmd |-> "idle", pc |-> "idle", i |-> 0, schema |-> "", baseline |-> "",
     dir |-> EmptyDir, old |-> NoSchema, new |-> NoSchema]

\* seen is what the latest read of a row view returned, until the next
\* statement of a command runs: the name read, the statement the running
\* pipeline was at, and the view (<<>> when the read raised)
NoRead == [name |-> "", pc |-> "idle", view |-> NoTable]

\* send is the call of nonbib_to_master_pipeline in progress: its arguments,
\* the result set of its select in the order the loop reads it, the rows the
\* loop has read (n), recs, and the messages handed to task_output_results
NotSending ==
    [pc |-> "idle", schema |-> "", batch_size |-> 0, results |-> <<>>, n |-> 0,
     recs |-> <<>>, delayed |-> <<>>]

NoCommand == [op |-> "none", schema |-> "", baseline |-> "", ok |-> TRUE]

Ran(op, s, b, ok) == [op |-> op, schema |-> s, baseline |-> b, ok |-> ok]

\* a command that is one call of a SqlSync method leaving result r
Command(op, s, b, r) ==
    /\ run.cmd = "idle"
    /\ db' = r.db
    /\ last' = Ran(op, s, b, r.ok)
    /\ seen' = NoRead
    /\ UNCHANGED <<run, send>>

createIngestTables(s) ==
    Command("createIngestTables", s, "", create_column_tables(db, s))

dropIngestTables(s) ==
    Command("dropIngestTables", s, "", drop_column_tables(db, s))

createJoinedRows(s) ==
    Command("createJoinedRows", s, "", create_joined_rows(db, s))

renameSchema(s, b) ==
    Command("renameSchema", s, b, rename_schema(db, s, b))

createDeltaRows(s, b) ==
    Command("createDeltaRows", s, b, create_delta_rows(db, s, b))

createNewBibcodes(s, b) ==
    Command("createNewBibcodes", s, b, build_new_bibcodes(db, s, b))

(***************************************************************************)
(* The pipeline commands of run.py's main, one statement at a step.        *)
(***************************************************************************)
\* pipelines whose load_column_files joins before it copies
ProgramJoinFirst(cmd) ==
    CASE cmd = "runRowViewPipeline" -> <<"drop", "create", "join", "copy">>
      [] cmd = "runRowViewPipelineDelta" ->
            <<"drop", "create", "join", "copy", "delta">>
      [] cmd = "runPipelinesDelta" ->
            <<"dropbaseline", "rename", "create", "join", "copy", "delta">>

\* the statements of each pipeline command, in order; load_column_files is
\* the copy loop followed by create_joined_rows
Program(cmd) ==
    CASE cmd = "runRowViewPipeline" -> <<"drop", "create", "copy", "join">>
      [] cmd = "runRowViewPipelineDelta" ->
            <<"drop", "create", "copy", "join", "delta">>
      [] cmd = "runPipelinesDelta" ->
            <<"dropbaseline", "rename", "create", "copy", "join", "delta">>

PcIndex(cmd, pc) == CHOOSE n \in 1..Len(Program(cmd)) : Program(cmd)[n] = pc

\* the command starts: main parses its arguments and builds its SqlSync
StartPipeline(cmd, s, b) ==
    /\ run.cmd = "idle"
    /\ run' = [cmd |-> cmd, pc |-> Program(cmd)[1], i |-> 0, schema |-> s,
               baseline |-> b, dir |-> EmptyDir,
               old |-> IF cmd = "runPipelinesDelta" THEN db[b] ELSE NoSchema,
               new |-> IF cmd = "runPipelinesDelta" THEN db[s] ELSE NoSchema]
    /\ last' = Ran(cmd, s, b, TRUE)
    /\ seen' = NoRead
    /\ UNCHANGED <<db, send>>

runRowViewPipeline(s) == StartPipeline("runRowViewPipeline", s, "")

runRowViewPipelineDelta(s, b) == StartPipeline("runRowViewPipelineDelta", s, b)

runPipelinesDelta(s, b) == StartPipeline("runPipelinesDelta", s, b)

\* a statement raised: the exception ends the command
Abort(d) ==
    /\ db' = d
    /\ run' = Idle
    /\ last' = Ran(run.cmd, run.schema, run.baseline, FALSE)
    /\ seen' = NoRead
    /\ UNCHANGED send

\* a statement returned: the command goes on to its next statement, or ends
Advance(d) ==
    /\ db' = d
    /\ seen' = NoRead
    /\ UNCHANGED send
    /\ IF PcIndex(run.cmd, run.pc) = Len(Program(run.cmd))
       THEN /\ run' = Idle
            /\ last' = Ran(run.cmd, run.schema, run.baseline, TRUE)
       ELSE /\ run' = [run EXCEPT
                         !.pc = Program(run.cmd)[PcIndex(run.cmd, run.pc) + 1],
                         !.i = IF @ = 0 /\ run.pc = "create" THEN 1 ELSE @]
            /\ UNCHANGED last

Statement(pc, r) ==
    /\ run.cmd # "idle"
    /\ run.pc = pc
    /\ IF r.ok THEN Advance(r.db) ELSE Abort(r.db)

\* sql_sync.drop_column_tables()
PipelineDrop == Statement("drop", drop_column_tables(db, run.schema))

\* baseline_sql_sync.drop_column_tables()
PipelineDropBaseline ==
    Statement("dropbaseline", drop_column_tables(db, run.baseline))

\* sql_sync.rename_schema(args.rowViewBaselineSchemaName)
PipelineRename ==
    Statement("rename", rename_schema(db, run.schema, run.baseline))

\* sql_sync.create_column_tables()
PipelineCreate == Statement("create", create_column_tables(db, run.schema))

\* one turn of the loop of load_column_files: the file of all_types[i] is
\* copied and committed; the first turn finds the data directory
PipelineCopy ==
    /\ run.cmd # "idle"
    /\ run.pc = "copy"
    /\ \E dir \in IF run.i = 1 THEN PipelineDirs ELSE {run.dir} :
          LET t == all_types[run.i]
              r == copy_from(db, run.schema, t, dir[t])
          IN  IF ~r.ok THEN Abort(r.db)
              ELSE IF run.i = Len(all_types) THEN Advance(r.db)
              ELSE /\ db' = r.db
                   /\ run' = [run EXCEPT !.i = @ + 1, !.dir = dir]
                   /\ seen' = NoRead
                   /\ UNCHANGED <<last, send>>

\* one turn of the loop raises before anything of its file is committed
\* (the file is missing or a line of it is malformed)
PipelineCopyFails ==
    /\ run.cmd # "idle"
    /\ run.pc = "copy"
    /\ Abort(db)

\* sql_sync.create_joined_rows(), the last statement of load_column_files
PipelineJoin == Statement("join", create_joined_rows(db, run.schema))

\* a delta statement that compares the baseline against the candidate
PipelineDeltaSwapped ==
    Statement("delta", create_delta_rows(db, run.baseline, run.schema))

\* sql_sync.create_delta_rows(args.rowViewBaselineSchemaName)
PipelineDelta ==
    Statement("delta", create_delta_rows(db, run.schema, run.baseline))

\* sql_sync.create_delta_rows(...) where the second statement, the insert,
\* raises (the connection is lost, or another session has dropped the
\* baseline schema since the first statement was committed)
PipelineDeltaInsertRaises ==
    /\ run.cmd # "idle"
    /\ run.pc = "delta"
    /\ create_delta_rows(db, run.schema, run.baseline).ok
    /\ Statement("delta",
                 create_delta_rows_insert_raises(db, run.schema, run.baseline))

\* a reader's get_row_view on schema name n while runPipelinesDelta runs
Read(n) ==
    /\ run.cmd = "runPipelinesDelta"
    /\ seen' = [name |-> n, pc |-> run.pc,
                view |-> IF Exists(db, n) THEN Schema(db, n).rowviewm
                         ELSE NoTable]
    /\ UNCHANGED <<db, last, run, send>>

Init ==
    /\ db = [s \in SchemaNames |-> NoSchema]
    /\ last = NoCommand
    /\ run = Idle
    /\ seen = NoRead
    /\ send = NotSending

Next ==
    \/ \E s \in SchemaNames : createIngestTables(s)
    \/ \E s \in SchemaNames : dropIngestTables(s)
    \/ \E s \in SchemaNames : createJoinedRows(s)
    \/ \E s, b \in SchemaNames : renameSchema(s, b)
    \/ \E s \in SchemaNames : runRowViewPipeline(s)
    \/ runRowViewPipelineDelta("nonbib", "nonbibstaging")
    \/ runPipelinesDelta("nonbib", "nonbibstaging")
    \/ PipelineDrop
    \/ PipelineDropBaseline
    \/ PipelineRename
    \/ PipelineCreate
    \/ PipelineCopy
    \/ PipelineCopyFails
    \/ PipelineJoin
    \/ PipelineDelta
    \/ PipelineDeltaInsertRaises
    \/ Read("nonbibstaging")

Spec == Init /\ [][Next]_vars

(***************************************************************************)
(* The join of one schema: the column tables of nonbib hold any data       *)
(* directory, and createJoinedRows is run on it.                           *)
(***************************************************************************)
InitJoin ==
    /\ \E dir \in DataDirs :
          db = [s \in SchemaNames |->
                  IF s = "nonbib" THEN <<Loaded(dir)>> ELSE NoSchema]
    /\ last = NoCommand
    /\ run = Idle
    /\ seen = NoRead
    /\ send = NotSending

NextJoin == \E s \in SchemaNames : createJoinedRows(s)

SpecJoin == InitJoin /\ [][NextJoin]_vars

(***************************************************************************)
(* The delta of two schemas: the column tables of nonbib (the candidate)   *)
(* and of nonbibstaging (the baseline) hold a data directory each; both    *)
(* are joined and the candidate's delta tables are built.                  *)
(***************************************************************************)
InitDelta ==
    /\ \E cand \in DeltaDirs, base \in DeltaDirs :
          db = [s \in SchemaNames |->
                  IF s = "nonbib" THEN <<Loaded(cand)>> ELSE <<Loaded(base)>>]
    /\ last = NoCommand
    /\ run = Idle
    /\ seen = NoRead
    /\ send = NotSending

NextDelta ==
    \/ \E s \in SchemaNames : createJoinedRows(s)
    \/ createDeltaRows("nonbib", "nonbibstaging")
    \/ createNewBibcodes("nonbib", "nonbibstaging")

SpecDelta == InitDelta /\ [][NextDelta]_vars

(***************************************************************************)
(* nonbib_to_master_pipeline of run.py: the rows of a schema's row view    *)
(* are read in the order the select returns them and handed to             *)
(* task_output_results in batches.                                         *)
(***************************************************************************)
\* the bibcodes of the row views that are sent
SendKeys == {BibcodeNames[i] : i \in 1..MaxRecords}

SendDirs == {DataDir(ks, {}) : ks \in SUBSET SendKeys}

\* the orders in which a select without order by may return the rows S
Orders(S) ==
    {f \in [1..Cardinality(S) -> S] :
        \A i, j \in 1..Cardinality(S) : f[i] = f[j] => i = j}

\* what delay is called with: the record itself when recs holds one record,
\* the list otherwise
Message(recs) == IF Len(recs) = 1 THEN [rec |-> recs[1]] ELSE [recs |-> recs]

\* the call starts: the select on s.rowviewm is executed; it raises when
\* the row view does not exist.  batch_size is a positive number.
nonbib_to_master_pipeline(s, batch_size) ==
    /\ send.pc = "idle"
    /\ IF Exists(db, s) /\ Schema(db, s).rowviewm # NoTable
       THEN \E results \in Orders(Schema(db, s).rowviewm[1].rows) :
               send' = [NotSending EXCEPT
                          !.pc = "loop", !.schema = s,
                          !.batch_size = batch_size, !.results = results]
       ELSE send' = [NotSending EXCEPT
                       !.pc = "raised", !.schema = s,
                       !.batch_size = batch_size]
    /\ UNCHANGED <<db, last, run, seen>>

\* a turn of the loop that hands recs over and does not empty it
ForwardRowKeepsRecs ==
    /\ send.pc = "loop"
    /\ send.n < Len(send.results)
    /\ LET recs == Append(send.recs, send.results[send.n + 1])
       IN  send' = IF Len(recs) >= send.batch_size
                   THEN [send EXCEPT !.n = @ + 1, !.recs = recs,
                                     !.delayed = Append(@, Message(recs))]
                   ELSE [send EXCEPT !.n = @ + 1, !.recs = recs]
    /\ UNCHANGED <<db, last, run, seen>>

\* one turn of the loop: the row becomes a record appended to recs; when
\* recs holds batch_size records or more they are handed over and recs is
\* emptied
ForwardRow ==
    /\ send.pc = "loop"
    /\ send.n < Len(send.results)
    /\ LET recs == Append(send.recs, send.results[send.n + 1])
       IN  send' = IF Len(recs) >= send.batch_size
                   THEN [send EXCEPT !.n = @ + 1, !.recs = <<>>,
                                     !.delayed = Append(@, Message(recs))]
                   ELSE [send EXCEPT !.n = @ + 1, !.recs = recs]
    /\ UNCHANGED <<db, last, run, seen>>

\* one turn of the loop in which task_output_results.delay raises
DelayRaises ==
    /\ send.pc = "loop"
    /\ send.n < Len(send.results)
    /\ Len(send.recs) + 1 >= send.batch_size
    /\ send' = [send EXCEPT
                  !.pc = "raised", !.n = @ + 1,
                  !.recs = Append(@, send.results[send.n + 1])]
    /\ UNCHANGED <<db, last, run, seen>>

\* the result set is exhausted: the loop ends and the function returns
Returns ==
    /\ send.pc = "loop"
    /\ send.n = Len(send.results)
    /\ send' = [send EXCEPT !.pc = "returned"]
    /\ UNCHANGED <<db, last, run, seen>>

InitSend ==
    /\ \E dir \in SendDirs :
          db = [s \in SchemaNames |->
                  IF s = "nonbib"
                  THEN create_joined_rows(
                           [n \in SchemaNames |-> <<Loaded(dir)>>], s).db[s]
                  ELSE NoSchema]
    /\ last = NoCommand
    /\ run = Idle
    /\ seen = NoRead
    /\ send = NotSending

NextSend ==
    \/ \E s \in SchemaNames, batch_size \in 1..MaxBatch :
          nonbib_to_master_pipeline(s, batch_size)
    \/ ForwardRow
    \/ DelayRaises
    \/ Returns

SpecSend == InitSend /\ [][NextSend]_vars

(***************************************************************************)
(* Properties of the join.                                                 *)
(***************************************************************************)
HasRowView(s) == Exists(db, s) /\ Schema(db, s).rowviewm # NoTable

RowView(s) == Schema(db, s).rowviewm[1]

Tables(s) == Schema(db, s).tables

\* C1: once create_joined_rows has built a schema's row view, the row view
\* holds exactly one row for each bibcode of the schema's canonical table and
\* no row for any other bibcode, whatever the other column tables hold.
C1_DomainClosure ==
    \A s \in SchemaNames :
        HasRowView(s) =>
            /\ BibcodesOf(RowView(s)) = BibcodesOf(Tables(s)["canonical"])
            /\ \A k \in BibcodesOf(RowView(s)) :
                  Cardinality({r \in RowView(s).rows : r["bibcode"] = Val(k)}) = 1

\* a row view was built over a non-empty canonical table while another
\* column table holds a bibcode that canonical lacks
C1_Witness ==
    /\ last.op = "createJoinedRows" /\ last.ok
    /\ HasRowView(last.schema)
    /\ Tables(last.schema)["canonical"].rows # {}
    /\ \E t \in OptionalTypes :
          ~(BibcodesOf(Tables(last.schema)[t])
                \subseteq BibcodesOf(Tables(last.schema)["canonical"]))
    /\ \E t \in OptionalTypes : Tables(last.schema)[t].rows = {}

\* the default the data model declares for a row view column
DeclaredDefault(c) ==
    IF c \in {"authors", "simbad_objects", "ned_objects", "grants",
              "citations", "readers", "reference"} THEN <<>>
    ELSE IF c = "refereed" THEN FALSE
    ELSE IF c \in {"boost", "citation_count", "read_count", "norm_cites"} THEN 0
    ELSE [i \in 1..VecLen |-> 0]

\* C2: in a row view, for every canonical bibcode and every column of every
\* other column table, the field is the value stored for the bibcode in that
\* table when the table has a row for it, and the column's declared default
\* otherwise.
C2_DefaultFill ==
    \A s \in SchemaNames :
        HasRowView(s) =>
            \A k \in BibcodesOf(Tables(s)["canonical"]) :
                \A t \in OptionalTypes : \A c \in ValueCols(t) :
                    \E r \in RowView(s).rows :
                        /\ r["bibcode"] = Val(k)
                        /\ r[c] = IF k \in BibcodesOf(Tables(s)[t])
                                  THEN RowOf(Tables(s)[t], k)[c]
                                  ELSE Val(DeclaredDefault(c))

\* a row view was built for a bibcode that has a row in one column table,
\* none in the download table and none in a third
C2_Witness ==
    /\ last.op = "createJoinedRows" /\ last.ok
    /\ HasRowView(last.schema)
    /\ \E k \in BibcodesOf(Tables(last.schema)["canonical"]) :
          /\ \E t \in OptionalTypes : k \in BibcodesOf(Tables(last.schema)[t])
          /\ k \notin BibcodesOf(Tables(last.schema)["download"])
          /\ k \notin BibcodesOf(Tables(last.schema)["grants"])

\* C7: whenever create_joined_rows has been invoked on an existing schema,
\* also one that already has a row view, it succeeded and the schema's row
\* view is the join of its column tables.
C7_Idempotent ==
    (last.op = "createJoinedRows" /\ Exists(db, last.schema)) =>
        /\ last.ok
        /\ Schema(db, last.schema).rowviewm
              = <<create_view_sql(Tables(last.schema))>>

(***************************************************************************)
(* Properties of the delta.  In SpecDelta nonbib is the candidate and      *)
(* nonbibstaging the baseline.                                             *)
(***************************************************************************)
CanonicalKeys(s) == BibcodesOf(Tables(s)["canonical"])

\* the bibcodes of the candidate's canonical table that the baseline's lacks
AddedKeys == CanonicalKeys("nonbib") \ CanonicalKeys("nonbibstaging")

HasChangedRows(s) == Exists(db, s) /\ Schema(db, s).changedrowsm # NoTable

ChangedRows(s) == Schema(db, s).changedrowsm[1]

HasNewBibcodes(s) == Exists(db, s) /\ Schema(db, s).newbibcodes # NoTable

NewBibcodes(s) == Schema(db, s).newbibcodes[1]

\* the rows of ChangedRowsM that the insert of new bibcodes wrote: it sets
\* bibcode alone, so their id is NULL
InsertedRows(s) == {x \in BagToSet(ChangedRows(s)) : x["id"] = NULL}

\* the rows of ChangedRowsM that the comparison of the row views selected
SelectedRows(s) == {x \in BagToSet(ChangedRows(s)) : x["id"] # NULL}

\* C3: the bibcodes build_new_bibcodes stores in newbibcodes, and the
\* bibcodes of the rows include_new_bibcodes_sql inserts into ChangedRowsM,
\* are exactly the candidate's canonical bibcodes that are not canonical
\* bibcodes of the baseline, each once, whatever the other column tables and
\* the row views hold.
C3_AddedIsAntiJoin ==
    /\ HasNewBibcodes("nonbib") =>
          /\ BagBibcodes(NewBibcodes("nonbib")) = AddedKeys
          /\ \A k \in AddedKeys : BibcodeCount(NewBibcodes("nonbib"), k) = 1
    /\ HasChangedRows("nonbib") =>
          /\ {x["bibcode"][1] : x \in InsertedRows("nonbib")} = AddedKeys
          /\ \A x \in InsertedRows("nonbib") : ChangedRows("nonbib")[x] = 1

\* newbibcodes was built before any row view existed, with a bibcode added,
\* one kept, and column tables that differ between the two schemas
C3_Witness ==
    /\ last.op = "createNewBibcodes" /\ last.ok
    /\ HasNewBibcodes("nonbib")
    /\ ~HasRowView("nonbib") /\ ~HasRowView("nonbibstaging")
    /\ AddedKeys # {}
    /\ CanonicalKeys("nonbib") \cap CanonicalKeys("nonbibstaging") # {}
    /\ \E t \in OptionalTypes : Tables("nonbib")[t] # Tables("nonbibstaging")[t]

\* C4 as claimed: after create_delta_rows no bibcode is both in the added
\* set and in the persisted changed set, ChangedRowsM.
C4_AddedNotInChangedRows ==
    HasChangedRows("nonbib") =>
        AddedKeys \cap BagBibcodes(ChangedRows("nonbib")) = {}

\* C4 as amended: after create_delta_rows, ChangedRowsM holds every added
\* bibcode, and every bibcode in it is there in exactly one row: an added
\* bibcode in the row the insert wrote and never in a row the comparison
\* selected, any other bibcode in a row the comparison selected.
C4_AddedOnceInChangedRows ==
    HasChangedRows("nonbib") =>
        /\ AddedKeys \subseteq BagBibcodes(ChangedRows("nonbib"))
        /\ \A k \in BagBibcodes(ChangedRows("nonbib")) :
              BibcodeCount(ChangedRows("nonbib"), k) = 1
        /\ \A x \in SelectedRows("nonbib") : x["bibcode"][1] \notin AddedKeys
        /\ \A x \in InsertedRows("nonbib") : x["bibcode"][1] \in AddedKeys

\* create_delta_rows ran on a candidate with an added bibcode and a bibcode
\* whose row differs from the baseline's
C4_Witness ==
    /\ last.op = "createDeltaRows" /\ last.ok
    /\ HasChangedRows("nonbib")
    /\ InsertedRows("nonbib") # {}
    /\ SelectedRows("nonbib") # {}

\* the fields the delta compares, as the claim's examples name them
ComparedFields ==
    {"authors", "refereed", "simbad_objects", "ned_objects", "grants",
     "citations", "boost", "citation_count", "read_count", "norm_cites",
     "readers", "downloads", "reads"}

\* the fields of rows c and b of two row views that differ
Differing(c, b) == {f \in get_row_view_table \ {"bibcode", "id"} : c[f] # b[f]}

\* the bibcodes with a row in both row views
SharedKeys == BibcodesOf(RowView("nonbib")) \cap BibcodesOf(RowView("nonbibstaging"))

\* C5: after create_delta_rows, a bibcode with a row in both row views has a
\* row in ChangedRowsM if and only if its two rows differ in at least one
\* compared field (authors, refereed, simbad_objects, ned_objects, grants,
\* citations, boost, citation_count, read_count, norm_cites, readers,
\* downloads, reads); a bibcode whose rows are equal in every field has none.
C5_ChangedIffDiffers ==
    HasChangedRows("nonbib") =>
        \A k \in SharedKeys :
            LET c == RowOf(RowView("nonbib"), k)
                b == RowOf(RowView("nonbibstaging"), k)
            IN  /\ (k \in BagBibcodes(ChangedRows("nonbib")))
                      <=> (Differing(c, b) \cap ComparedFields # {})
                /\ Differing(c, b) = {}
                      => k \notin BagBibcodes(ChangedRows("nonbib"))

\* create_delta_rows ran where one shared bibcode differs in boost alone
\* (baseline 1, candidate 2) and is selected, and another shared bibcode is
\* equal in every field and is not
C5_Witness ==
    /\ last.op = "createDeltaRows" /\ last.ok
    /\ HasChangedRows("nonbib")
    /\ \E k \in SharedKeys :
          /\ Differing(RowOf(RowView("nonbib"), k),
                       RowOf(RowView("nonbibstaging"), k)) = {"boost"}
          /\ RowOf(RowView("nonbib"), k)["boost"] = Val(2)
          /\ RowOf(RowView("nonbibstaging"), k)["boost"] = Val(1)
          /\ k \in BagBibcodes(ChangedRows("nonbib"))
    /\ \E k \in SharedKeys :
          /\ Differing(RowOf(RowView("nonbib"), k),
                       RowOf(RowView("nonbibstaging"), k)) = {}
          /\ k \notin BagBibcodes(ChangedRows("nonbib"))

SequenceFields ==
    {"authors", "simbad_objects", "ned_objects", "grants", "citations",
     "readers", "reference"}

\* two arrays with the same elements in a different order
Reordered(x, y) ==
    /\ x # y
    /\ Len(x) = Len(y)
    /\ \E p \in [1..Len(x) -> 1..Len(x)] :
          /\ \A i, j \in 1..Len(x) : p[i] = p[j] => i = j
          /\ \A i \in 1..Len(x) : y[i] = x[p[i]]

\* C6: after create_delta_rows, a bibcode with a row in both row views whose
\* rows differ in one sequence-valued field alone, the candidate's value
\* being the baseline's reordered, has a row in ChangedRowsM.
C6_ReorderIsChange ==
    HasChangedRows("nonbib") =>
        \A k \in SharedKeys : \A f \in SequenceFields :
            LET c == RowOf(RowView("nonbib"), k)
                b == RowOf(RowView("nonbibstaging"), k)
            IN  (Differing(c, b) = {f} /\ Reordered(b[f][1], c[f][1]))
                    => k \in BagBibcodes(ChangedRows("nonbib"))

\* the bibcodes log_delta_reasons counts as different in at least one of
\* its columns
AuditedKeys ==
    {k \in SharedKeys :
        \E n \in 1..Len(column_names) :
            /\ log_delta_reasons(RowView("nonbib"), RowView("nonbibstaging"))[n] > 0
            /\ \E p \in DifferentRows(RowView("nonbib"), RowView("nonbibstaging"),
                                      column_names[n]) : p[1]["bibcode"] = Val(k)}

\* C15: after create_delta_rows, a bibcode is counted by log_delta_reasons
\* as different in at least one of its columns if and only if it has a row
\* in both row views and the comparison of create_changed_sql selected it.
C15_AuditedIffChanged ==
    HasChangedRows("nonbib") =>
        \A k \in SharedKeys :
            (k \in AuditedKeys)
                <=> (\E x \in SelectedRows("nonbib") : x["bibcode"] = Val(k))

(***************************************************************************)
(* Properties of promotion: the rename of a schema to the baseline name.   *)
(***************************************************************************)
\* a generation whose every column file was loaded and whose row view was
\* built
Complete(g) == g # NoSchema /\ g[1].loaded /\ g[1].rowviewm # NoTable

\* C8: a read of the baseline name issued while runPipelinesDelta promotes
\* a complete candidate over a complete baseline returns the row view of the
\* generation the baseline name held before the command or of the one the
\* candidate name held, never a missing row view.
C8_PromotionAtomic ==
    (/\ run.cmd = "runPipelinesDelta"
     /\ seen.name = run.baseline
     /\ Complete(run.old) /\ Complete(run.new))
        => seen.view \in {run.old[1].rowviewm, run.new[1].rowviewm}

\* C9 as claimed: rename_schema to a name that holds no schema raises and
\* leaves every schema as it was.
C9_FailsWithoutTarget ==
    [][\A s, b \in SchemaNames :
          (renameSchema(s, b) /\ ~Exists(db, b)) => (~last'.ok /\ db' = db)]_vars

\* C9 as amended: rename_schema raises and leaves every schema as it was
\* whenever the new name holds a schema (or the schema to rename does not
\* exist); when the new name holds none and the schema to rename exists, it
\* succeeds and the new name holds that schema, the old name none.
C9_FailsWhenTargetBusy ==
    [][\A s, b \in SchemaNames :
          renameSchema(s, b) =>
              IF Exists(db, b) \/ ~Exists(db, s)
              THEN ~last'.ok /\ db' = db
              ELSE last'.ok /\ db'[b] = db[s] /\ db'[s] = NoSchema]_vars

\* renameSchema raised where both names held a schema, and both are still there
C9_Witness ==
    /\ last.op = "renameSchema" /\ ~last.ok
    /\ last.schema # last.baseline
    /\ Exists(db, last.schema) /\ Exists(db, last.baseline)
    /\ Complete(db[last.schema])

\* C10: a schema that rename_schema has just moved to the baseline name, by
\* the renameSchema command or by runPipelinesDelta, has all its column
\* files loaded and its row view built.
C10_OnlyCompletePromoted ==
    /\ (last.op = "renameSchema" /\ last.ok) => Complete(db[last.baseline])
    /\ (run.cmd = "runPipelinesDelta" /\ run.pc = "create")
          => Complete(db[run.baseline])

(***************************************************************************)
(* Properties of create_column_tables and create_joined_rows.              *)
(***************************************************************************)
\* the schema g holds exactly one empty table per type of all_types and
\* neither row view nor delta tables
EmptyGeneration(g) ==
    /\ g # NoSchema
    /\ DOMAIN g[1].tables = {all_types[n] : n \in 1..Len(all_types)}
    /\ \A t \in DOMAIN g[1].tables :
          g[1].tables[t].rows = {} /\ g[1].tables[t].cols = get_table(t)
    /\ g[1].rowviewm = NoTable
    /\ g[1].changedrowsm = NoTable
    /\ g[1].newbibcodes = NoTable

\* C11: create_column_tables on a schema name that holds a schema raises and
\* leaves every schema (column tables, row view, delta tables) as it was; on
\* a name that holds none it succeeds and the name then holds one empty
\* table per type of all_types and nothing else, the other name unchanged.
C11_CreateFailsIfExists ==
    [][\A s \in SchemaNames :
          createIngestTables(s) =>
              IF Exists(db, s)
              THEN ~last'.ok /\ db' = db
              ELSE /\ last'.ok
                   /\ EmptyGeneration(db'[s])
                   /\ \A o \in SchemaNames \ {s} : db'[o] = db[o]]_vars

\* createIngestTables raised on a name that holds a complete generation
C11_Witness ==
    /\ last.op = "createIngestTables" /\ ~last.ok
    /\ Complete(db[last.schema])
    /\ Schema(db, last.schema).tables["canonical"].rows # {}

\* C12: createJoinedRows on a schema whose canonical table was never
\* populated raises and the schema has no row view afterwards.
C12_JoinNeedsCanonical ==
    (/\ last.op = "createJoinedRows"
     /\ Exists(db, last.schema)
     /\ ~Schema(db, last.schema).loaded
     /\ Schema(db, last.schema).tables["canonical"].rows = {})
        => (~last.ok /\ Schema(db, last.schema).rowviewm = NoTable)

(***************************************************************************)
(* Properties of nonbib_to_master_pipeline.                                *)
(***************************************************************************)
\* the records a message carries
Records(m) == IF "rec" \in DOMAIN m THEN <<m.rec>> ELSE m.recs

\* the records of a sequence of messages, in the order they were handed over
RECURSIVE Flatten(_)
Flatten(ms) ==
    IF ms = <<>> THEN <<>> ELSE Records(Head(ms)) \o Flatten(Tail(ms))

\* C13: every batch handed to task_output_results holds at least one and at
\* most batch_size records; the records of the batches, taken in order, are
\* the rows the loop has read so far without those still in recs, in the
\* order of the result set; with batch_size 1 every message is one record.
C13_BatchesBounded ==
    /\ \A i \in 1..Len(send.delayed) :
          /\ Len(Records(send.delayed[i])) >= 1
          /\ Len(Records(send.delayed[i])) <= send.batch_size
          /\ send.batch_size = 1 => "rec" \in DOMAIN send.delayed[i]
    /\ send.pc = "loop" =>
          Flatten(send.delayed) \o send.recs = SubSeq(send.results, 1, send.n)
    /\ Len(Flatten(send.delayed)) <= Len(send.results)
    /\ Flatten(send.delayed) =
          SubSeq(send.results, 1, Len(Flatten(send.delayed)))

\* a call with batch_size 2 has returned after handing over two batches
C13_Witness ==
    /\ send.pc = "returned"
    /\ send.batch_size = 2
    /\ Len(send.delayed) = 2
    /\ \A i \in 1..2 : Len(Records(send.delayed[i])) = 2

\* C14: when nonbib_to_master_pipeline has returned, every row of the
\* schema's row view is in exactly one of the batches handed over.
C14_EveryRecordSent ==
    send.pc = "returned" =>
        \A r \in Schema(db, send.schema).rowviewm[1].rows :
            Cardinality({i \in 1..Len(Flatten(send.delayed)) :
                            Flatten(send.delayed)[i] = r}) = 1

(***************************************************************************)
(* Properties of the pipeline commands.                                    *)
(***************************************************************************)
\* C16: in every pipeline command create_joined_rows runs only when the
\* file of every type of all_types has been copied into the schema and
\* committed, the column tables holding exactly the rows of the data
\* directory; and when a turn of the copy loop raises, the command ends
\* there and the schema has no row view.
C16_JoinAfterLoad ==
    [][/\ PipelineJoin =>
            /\ run.i = Len(all_types)
            /\ Exists(db, run.schema)
            /\ Schema(db, run.schema).loaded
            /\ Schema(db, run.schema).tables = run.dir
       /\ (run.pc = "copy" /\ run'.pc # "copy" /\ ~last'.ok) =>
            /\ run'.cmd = "idle"
            /\ Exists(db', run.schema)
            /\ Schema(db', run.schema).rowviewm = NoTable]_vars

\* a pipeline command has loaded a directory with rows in its canonical and
\* author files and then built the row view
C16_Witness ==
    /\ run.cmd # "idle"
    /\ run.pc = "delta"
    /\ run.dir["author"].rows # {}
    /\ HasRowView(run.schema)
    /\ RowView(run.schema).rows # {}

\* C17: when create_delta_rows raises in a pipeline command, every schema
\* is as it was before the call; no ChangedRowsM table is left behind.
C17_FailedDeltaChangesNothing ==
    [][(run.pc = "delta" /\ run'.cmd = "idle" /\ ~last'.ok) => db' = db]_vars

\* C18: while runPipelinesDelta runs, started with a complete generation P
\* under the row view schema name: after the drop the baseline name holds
\* nothing and the candidate name still P; from the rename on the baseline
\* name holds exactly P; between rename and create the candidate name holds
\* nothing, and then a schema this run created and loads; and when the last
\* statement returns, the candidate name holds the loaded data directory
\* with its row view, and its ChangedRowsM is the comparison of that row
\* view with P's plus the canonical bibcodes P lacks.
C18_PipelinesDeltaOutcome ==
    [][(run.cmd = "runPipelinesDelta" /\ Complete(run.new)) =>
         /\ run.pc = "rename" =>
               db[run.baseline] = NoSchema /\ db[run.schema] = run.new
         /\ run.pc \in {"create", "copy", "join", "delta"} =>
               db[run.baseline] = run.new
         /\ run.pc = "create" => db[run.schema] = NoSchema
         /\ (run.pc = "copy" /\ run.i = 1) => db[run.schema] = <<NewSchema>>
         /\ (run.pc = "delta" /\ run'.cmd = "idle" /\ last'.ok) =>
               /\ db'[run.baseline] = run.new
               /\ Complete(db'[run.schema])
               /\ Schema(db', run.schema).tables = run.dir
               /\ Schema(db', run.schema).rowviewm =
                     <<create_view_sql(run.dir)>>
               /\ Schema(db', run.schema).changedrowsm =
                     <<create_changed_sql(create_view_sql(run.dir),
                                          run.new[1].rowviewm[1])
                       (+) include_new_bibcodes_sql(
                               run.dir["canonical"],
                               run.new[1].tables["canonical"])>>]_vars

\* runPipelinesDelta has returned where a baseline was replaced, and the
\* delta it left holds a changed and an added bibcode
C18_Witness ==
    /\ run.cmd = "idle"
    /\ last.op = "runPipelinesDelta" /\ last.ok
    /\ Complete(db[last.baseline]) /\ Complete(db[last.schema])
    /\ Schema(db, last.baseline).tables["canonical"].rows # {}
    /\ HasChangedRows(last.schema)
    /\ InsertedRows(last.schema) # {}
    /\ SelectedRows(last.schema) # {}

====
